---- MODULE Spec2Model ----
(***************************************************************************)
(* Model of the selection state machine and move executor of              *)
(* solitaire_tui_rs (src/src/main.rs): the key mapper key_to_slot, the     *)
(* key handler change_board_state and the key branch of main's event loop. *)
(* The card engine (crate solitaire_base) is not part of the sources; it   *)
(* is modelled from the interface contract of spec.md, section 6.          *)
(***************************************************************************)
EXTENDS Integers, Sequences, FiniteSets, TLC

(* ------------------------------ bounds -------------------------------- *)

\* Highest rank of a number card in the model's deck (9 in the real deck).
MaxRank == 3

\* Dragons per colour in the model's deck (4 in the real deck).
DragonCopies == 1

\* Number of different shuffles new_random may produce in the model.
NumSeeds == 1

\* Board mutations (executed moves, dragon collections, new games) explored.
MaxMoves == 1

(* -------------------------- program constants ------------------------- *)

NumSpares == 3

NumTrays == 8

NumberCards == <<"Bamboo", "Characters", "Coin">>

DragonCards == <<"Green", "White", "Red">>

None == "None"

(* -------------------------------- cards ------------------------------- *)

Number(s, r) == [kind |-> "Number", suit |-> s, rank |-> r]

Dragon(c) == [kind |-> "Dragon", suit |-> c, rank |-> 0]

Flower == [kind |-> "Flower", suit |-> "Flower", rank |-> 0]

\* The deck in a fixed order: numbers (ranks falling, suits rotating),
\* then the dragons, then the flower.
Deck ==
    [p \in 1..(3 * MaxRank) |->
        Number(NumberCards[((((p - 1) \div MaxRank) + ((p - 1) % MaxRank)) % 3) + 1],
               MaxRank - ((p - 1) % MaxRank))]
    \o [p \in 1..(3 * DragonCopies) |-> Dragon(DragonCards[((p - 1) % 3) + 1])]
    \o <<Flower>>

DeckSize == Len(Deck)

(* -------------------------------- slots ------------------------------- *)

Spare(i) == [kind |-> "Spare", index |-> i]

Tray(i) == [kind |-> "Tray", index |-> i]

ALL_SLOTS == {Spare(i) : i \in 0..(NumSpares - 1)} \cup {Tray(i) : i \in 0..(NumTrays - 1)}

(* ------------------------- engine (solitaire_base) -------------------- *)

\* board.get(slot): the cards of a slot, bottom to top.
Get(b, slot) ==
    IF slot.kind = "Spare" THEN b.spare[slot.index] ELSE b.tray[slot.index]

SetSlot(b, slot, cs) ==
    IF slot.kind = "Spare"
    THEN [b EXCEPT !.spare[slot.index] = cs]
    ELSE [b EXCEPT !.tray[slot.index] = cs]

\* upper.can_stack_onto(lower)
can_stack_onto(upper, lower) ==
    /\ upper.kind = "Number"
    /\ lower.kind = "Number"
    /\ upper.suit # lower.suit
    /\ upper.rank + 1 = lower.rank

\* board.appendable(slot, card)
appendable(b, slot, card) ==
    IF slot.kind = "Spare"
    THEN Len(b.spare[slot.index]) = 0 /\ ~b.collected[slot.index]
    ELSE \/ Len(b.tray[slot.index]) = 0
         \/ can_stack_onto(card, b.tray[slot.index][Len(b.tray[slot.index])])

\* board.pop(slot): the board without the slot's top card.
pop(b, slot) ==
    SetSlot(b, slot, SubSeq(Get(b, slot), 1, Len(Get(b, slot)) - 1))

\* The card board.pop(slot) returns.
top(b, slot) == Get(b, slot)[Len(Get(b, slot))]

\* board.push(slot, card)
push(b, slot, card) == SetSlot(b, slot, Append(Get(b, slot), card))

\* A slot whose top card simplify can advance to a completion pile.
Completable(b, slot) ==
    /\ Len(Get(b, slot)) > 0
    /\ \/ top(b, slot).kind = "Flower"
       \/ /\ top(b, slot).kind = "Number"
          /\ top(b, slot).rank = b.out[top(b, slot).suit] + 1

Complete(b, slot) ==
    IF top(b, slot).kind = "Flower"
    THEN [pop(b, slot) EXCEPT !.flower = TRUE]
    ELSE [pop(b, slot) EXCEPT !.out[top(b, slot).suit] = top(b, slot).rank]

RECURSIVE simplify(_)
\* board.simplify(): advance completable cards until none is left.
simplify(b) ==
    IF \E slot \in ALL_SLOTS : Completable(b, slot)
    THEN simplify(Complete(b, CHOOSE slot \in ALL_SLOTS : Completable(b, slot)))
    ELSE b

\* The slots that show a dragon of the colour on top.
DragonSlots(b, color) ==
    {slot \in ALL_SLOTS : Len(Get(b, slot)) > 0 /\ top(b, slot) = Dragon(color)}

\* The spares that can take the collected dragons of the colour.
DragonTargets(b, color) ==
    {i \in 0..(NumSpares - 1) :
        /\ ~b.collected[i]
        /\ \/ Len(b.spare[i]) = 0
           \/ b.spare[i] = <<Dragon(color)>>}

CanCollectDragon(b, color) ==
    /\ Cardinality(DragonSlots(b, color)) = DragonCopies
    /\ DragonTargets(b, color) # {}

RECURSIVE PopAll(_, _)
PopAll(b, slots) ==
    IF slots = {} THEN b
    ELSE LET s == CHOOSE x \in slots : TRUE
         IN PopAll(pop(b, s), slots \ {s})

\* board.move_cards(MoveAction::CollectDragon(color)) when it succeeds: the
\* dragons leave their slots and one spare (one that held a dragon of the
\* colour, else the first free one) is marked collected.
move_cards(b, color) ==
    LET targets == DragonTargets(b, color)
        holding == {i \in targets : Len(b.spare[i]) > 0}
        from == IF holding # {} THEN holding ELSE targets
        i == CHOOSE x \in from : \A y \in from : x <= y
    IN [PopAll(b, DragonSlots(b, color)) EXCEPT !.spare[i] = <<>>, !.collected[i] = TRUE]

\* Cards per tray in a fresh deal.
DealHeight == (DeckSize + NumTrays - 1) \div NumTrays

\* Board::new_random() for one shuffle: the deck rotated by the seed and
\* dealt in consecutive chunks to the trays.
new_random(seed) ==
    LET card(p) == Deck[((p - 1 + seed) % DeckSize) + 1]
        first(j) == j * DealHeight + 1
        last(j) == IF (j + 1) * DealHeight < DeckSize THEN (j + 1) * DealHeight ELSE DeckSize
    IN [tray |-> [j \in 0..(NumTrays - 1) |->
                    IF first(j) > DeckSize THEN <<>>
                    ELSE [p \in 1..(last(j) - first(j) + 1) |-> card(first(j) + p - 1)]],
        spare |-> [i \in 0..(NumSpares - 1) |-> <<>>],
        collected |-> [i \in 0..(NumSpares - 1) |-> FALSE],
        out |-> [s \in {"Bamboo", "Characters", "Coin"} |-> 0],
        flower |-> FALSE]

(* ------------------------------- keys --------------------------------- *)

\* The key codes the model feeds in; "x" stands for every other key.
Keys == {"a", "b", "c", "1", "2", "3", "4", "5", "6", "7", "8", "9", "0",
         "d", "g", "w", "r", "Esc", "x", "n", "q"}

Err == [kind |-> "Err", index |-> 0]

\* key_to_slot with the fault of leaving out the last tray key.
key_to_slot_without_8(key) ==
    CASE key = "a" -> Spare(0)
      [] key = "b" -> Spare(1)
      [] key = "c" -> Spare(2)
      [] key = "1" -> Tray(0)
      [] key = "2" -> Tray(1)
      [] key = "3" -> Tray(2)
      [] key = "4" -> Tray(3)
      [] key = "5" -> Tray(4)
      [] key = "6" -> Tray(5)
      [] key = "7" -> Tray(6)
      [] OTHER -> Err

\* fn key_to_slot
key_to_slot(key) ==
    CASE key = "a" -> Spare(0)
      [] key = "b" -> Spare(1)
      [] key = "c" -> Spare(2)
      [] key = "1" -> Tray(0)
      [] key = "2" -> Tray(1)
      [] key = "3" -> Tray(2)
      [] key = "4" -> Tray(3)
      [] key = "5" -> Tray(4)
      [] key = "6" -> Tray(5)
      [] key = "7" -> Tray(6)
      [] key = "8" -> Tray(7)
      [] OTHER -> Err

\* c.to_digit(10) of KeyCode::Char(c); -1 (no digit) for every other key.
to_digit(key) ==
    CASE key = "0" -> 0 [] key = "1" -> 1 [] key = "2" -> 2 [] key = "3" -> 3
      [] key = "4" -> 4 [] key = "5" -> 5 [] key = "6" -> 6 [] key = "7" -> 7
      [] key = "8" -> 8 [] key = "9" -> 9
      [] OTHER -> -1

(* --------------------------- selection state -------------------------- *)

NoLocation == [kind |-> "None", index |-> 0, depth |-> 0]

\* SolitaireLocation::Spare(index)
SpareLoc(i) == [kind |-> "Spare", index |-> i, depth |-> 0]

\* SolitaireLocation::Tray(x, y)
TrayLoc(x, y) == [kind |-> "Tray", index |-> x, depth |-> y]

\* enum BoardState
View == [tag |-> "View", index |-> 0, location |-> NoLocation]

CollectDragon == [tag |-> "CollectDragon", index |-> 0, location |-> NoLocation]

SemiPickup(i) == [tag |-> "SemiPickup", index |-> i, location |-> NoLocation]

Pickup(loc) == [tag |-> "Pickup", index |-> 0, location |-> loc]

NoMove == [made |-> FALSE]

(* ------------------------------- state -------------------------------- *)

VARIABLES
    board,       \* main's board (the engine's Board)
    state,       \* main's board_state
    info,        \* main's info: None or the notice text
    status,      \* "starting", "running", "quit" (break), "panicked" (an unwrap
                 \* failed) or "io_error" (a ? of main returned an Err)
    rejected,    \* the last key event set the notice (lines 162, 176, 195)
    simplified,  \* calls of board.simplify() during the last key event
    move,        \* the move the last key event executed (lines 199-209), or NoMove
    last_key,    \* main's key: the key of the last key event, or None
    last_state,  \* board_state as the last key event found it
    last_board,  \* board as the last key event found it
    nmoves,      \* board mutations so far (bounded by MaxMoves)
    raw_mode,    \* the terminal is in raw mode
    alt_screen,  \* the terminal shows the alternate screen
    shown,       \* the frame of the last successful terminal.draw, set against
                 \* what the loop holds: "nothing", "current" or "stale"
    pending,     \* key events event_stream holds, oldest first
    arrived,     \* every key event so far, in the order of arrival
    handled      \* the keys of the key events handled so far, in that order

vars == <<board, state, info, status, rejected, simplified, move, last_key,
          last_state, last_board, nmoves, raw_mode, alt_screen, shown,
          pending, arrived, handled>>

(* ------------------------ change_board_state -------------------------- *)

\* What one call of change_board_state leaves behind.
Outcome(b, st, inf, rej, simp, pan, mv) ==
    [board |-> b, state |-> st, info |-> inf, rejected |-> rej,
     simplified |-> simp, panicked |-> pan, move |-> mv]

\* An arm that only sets the state (or returns early).
Goto(b, st) == Outcome(b, st, None, FALSE, 0, FALSE, NoMove)

\* An arm that sets the notice (and returns).
Reject(b, st, msg) == Outcome(b, st, msg, TRUE, 0, FALSE, NoMove)

\* cancel with the fault of leaving the state as it is.
cancel_stays(b, st) == Goto(b, st)

\* Lines 150-151, 167-168, 185-186: Esc in a state other than View.
cancel(b, st) == Goto(b, View)

\* ignored with the fault of falling back to View.
ignored_resets(b, st) == Goto(b, View)

\* Lines 146, 158, 181, 188: a key the arm has no use for (an empty match
\* arm or an early return).
ignored(b, st) == Goto(b, st)

\* view_arm with the fault of counting the tray keys from one.
view_arm_from_one(b, st, key) ==
    CASE key = "a" -> Goto(b, Pickup(SpareLoc(0)))
      [] key = "b" -> Goto(b, Pickup(SpareLoc(1)))
      [] key = "c" -> Goto(b, Pickup(SpareLoc(2)))
      [] key = "1" -> Goto(b, SemiPickup(1))
      [] key = "2" -> Goto(b, SemiPickup(2))
      [] key = "3" -> Goto(b, SemiPickup(3))
      [] key = "4" -> Goto(b, SemiPickup(4))
      [] key = "5" -> Goto(b, SemiPickup(5))
      [] key = "6" -> Goto(b, SemiPickup(6))
      [] key = "7" -> Goto(b, SemiPickup(7))
      [] key = "8" -> Goto(b, SemiPickup(7))
      [] key = "d" -> Goto(b, CollectDragon)
      [] OTHER -> ignored(b, st)

\* match arm BoardState::View
view_arm(b, st, key) ==
    CASE key = "a" -> Goto(b, Pickup(SpareLoc(0)))
      [] key = "b" -> Goto(b, Pickup(SpareLoc(1)))
      [] key = "c" -> Goto(b, Pickup(SpareLoc(2)))
      [] key = "1" -> Goto(b, SemiPickup(0))
      [] key = "2" -> Goto(b, SemiPickup(1))
      [] key = "3" -> Goto(b, SemiPickup(2))
      [] key = "4" -> Goto(b, SemiPickup(3))
      [] key = "5" -> Goto(b, SemiPickup(4))
      [] key = "6" -> Goto(b, SemiPickup(5))
      [] key = "7" -> Goto(b, SemiPickup(6))
      [] key = "8" -> Goto(b, SemiPickup(7))
      [] key = "d" -> Goto(b, CollectDragon)
      [] OTHER -> ignored(b, st)

\* The colour a key chooses in CollectDragon, or None.
dragon_color(key) ==
    CASE key = "g" -> "Green"
      [] key = "w" -> "White"
      [] key = "r" -> "Red"
      [] OTHER -> None

\* dragon_refused with the fault of resetting the state to View.
dragon_refused_resets(b, st) == Reject(b, View, "Cannot collect dragon")

\* Lines 161-163: move_cards returned false.
dragon_refused(b, st) == Reject(b, st, "Cannot collect dragon")

\* match arm BoardState::CollectDragon
collect_dragon_arm(b, st, key) ==
    IF key = "Esc" THEN cancel(b, st)
    ELSE IF dragon_color(key) = None THEN ignored(b, st)
    ELSE IF CanCollectDragon(b, dragon_color(key))
         THEN Goto(move_cards(b, dragon_color(key)), View)
         ELSE dragon_refused(b, st)

\* valid_stack with the fault of starting the loop one card higher.
valid_stack_from_next(b, index, n) ==
    \A i \in (n + 1)..(Len(b.tray[index]) - 1) :
        can_stack_onto(b.tray[index][i + 1], b.tray[index][i])

\* The loop of lines 173-179: every card from index n up stacks onto the
\* card below it.
valid_stack(b, index, n) ==
    \A i \in n..(Len(b.tray[index]) - 1) :
        can_stack_onto(b.tray[index][i + 1], b.tray[index][i])

\* invalid_count with the fault of allowing one card more than the column
\* holds.
invalid_count_past_top(b, index, n) == n = 0 \/ n > Len(b.tray[index]) + 1

\* Lines 171-172: the count is zero or exceeds the length of the column.
invalid_count(b, index, n) == n = 0 \/ n > Len(b.tray[index])

\* match arm BoardState::SemiPickup(index)
semi_pickup_arm(b, st, key) ==
    IF key = "Esc" THEN cancel(b, st)
    ELSE IF to_digit(key) = -1 THEN ignored(b, st)
    ELSE IF invalid_count(b, st.index, to_digit(key)) THEN Goto(b, st)
    ELSE IF ~valid_stack(b, st.index, to_digit(key))
         THEN Reject(b, st, "Not a valid stack")
         ELSE Goto(b, Pickup(TrayLoc(st.index, to_digit(key))))

\* The slot a location lies in.
SlotOf(loc) == IF loc.kind = "Spare" THEN Spare(loc.index) ELSE Tray(loc.index)

\* Lines 189-192 before the unwrap: does the location name a card?
has_source_card(b, loc) ==
    IF loc.kind = "Spare"
    THEN Len(b.spare[loc.index]) >= 1
    ELSE Len(b.tray[loc.index]) >= loc.depth

\* Lines 189-192: get(Spare).next(), or get(Tray(x)).nth(y - 1).
source_card(b, loc) ==
    IF loc.kind = "Spare"
    THEN b.spare[loc.index][1]
    ELSE b.tray[loc.index][loc.depth]

\* pop_count with the fault of reading the depth as a number of top cards.
pop_count_topmost(b, loc) ==
    IF loc.kind = "Spare" THEN 1 ELSE loc.depth

\* How many cards lines 199-206 pop from the source.
pop_count(b, loc) ==
    IF loc.kind = "Spare" THEN 1
    ELSE Len(b.tray[loc.index]) - (loc.depth - 1)

RECURSIVE popped_cards(_, _, _)
\* The cards n calls of board.pop(slot) return, in pop order.
popped_cards(b, slot, n) ==
    IF n = 0 THEN <<>>
    ELSE <<top(b, slot)>> \o popped_cards(pop(b, slot), slot, n - 1)

\* popped_board with the fault of reading the cards without removing them.
popped_board_keep(b, slot, n) == b

RECURSIVE popped_board(_, _, _)
\* The board n calls of board.pop(slot) leave.
popped_board(b, slot, n) ==
    IF n = 0 THEN b ELSE popped_board(pop(b, slot), slot, n - 1)

\* .iter().rev()
rev(cs) == [i \in 1..Len(cs) |-> cs[Len(cs) + 1 - i]]

\* take_cards with the fault of leaving out .rev().
take_cards_unreversed(b, loc) ==
    popped_cards(b, SlotOf(loc), pop_count(b, loc))

\* Lines 199-206: the cards taken from the source, in the order they are
\* pushed (a single card from a spare; a tray's pops, reversed).
take_cards(b, loc) ==
    IF loc.kind = "Spare"
    THEN popped_cards(b, SlotOf(loc), pop_count(b, loc))
    ELSE rev(popped_cards(b, SlotOf(loc), pop_count(b, loc)))

RECURSIVE push_cards(_, _, _)
\* Lines 207-209: push every card, first to last.
push_cards(b, slot, cs) ==
    IF cs = <<>> THEN b
    ELSE push_cards(push(b, slot, Head(cs)), slot, Tail(cs))

\* illegal_destination with the fault of resetting the state to View.
illegal_destination_resets(b, st, target_slot) ==
    Reject(b, View, "Cannot stack onto that")

\* illegal_destination with the fault of testing after the first pop.
illegal_destination_after_pop(b, st, target_slot) ==
    Reject(pop(b, SlotOf(st.location)), st, "Cannot stack onto that")

\* Lines 194-197: the destination does not take the source card.
illegal_destination(b, st, target_slot) ==
    Reject(b, st, "Cannot stack onto that")

\* moved with the fault of leaving out board.simplify().
moved_unsimplified(b, st, target_slot, cards, pushed) ==
    Outcome(pushed, View, None, FALSE, 0, FALSE,
            [made |-> TRUE, location |-> st.location, target_slot |-> target_slot,
             cards |-> cards, pushed |-> pushed])

\* What lines 198-211 leave once the cards are known: the move record,
\* board.simplify() and the reset to View.
moved(b, st, target_slot, cards, pushed) ==
    Outcome(simplify(pushed), View, None, FALSE, 1, FALSE,
            [made |-> TRUE, location |-> st.location, target_slot |-> target_slot,
             cards |-> cards, pushed |-> pushed])

\* Lines 198-211: take the cards from the source, push them onto the target.
execute_move(b, st, target_slot) ==
    moved(b, st, target_slot, take_cards(b, st.location),
          push_cards(popped_board(b, SlotOf(st.location), pop_count(b, st.location)),
                     target_slot, take_cards(b, st.location)))

\* match arm BoardState::Pickup(location)
pickup_arm(b, st, key) ==
    IF key = "Esc" THEN cancel(b, st)
    ELSE IF key_to_slot(key) = Err THEN ignored(b, st)
    ELSE IF ~has_source_card(b, st.location)
         THEN Outcome(b, st, None, FALSE, 0, TRUE, NoMove)
    ELSE IF ~appendable(b, key_to_slot(key), source_card(b, st.location))
         THEN illegal_destination(b, st, key_to_slot(key))
         ELSE execute_move(b, st, key_to_slot(key))

\* fn change_board_state: the notice is cleared, then the arm of the state.
change_board_state(b, st, key) ==
    CASE st.tag = "View" -> view_arm(b, st, key)
      [] st.tag = "CollectDragon" -> collect_dragon_arm(b, st, key)
      [] st.tag = "SemiPickup" -> semi_pickup_arm(b, st, key)
      [] st.tag = "Pickup" -> pickup_arm(b, st, key)

(* ------------------------------ main loop ----------------------------- *)

Seeds == 0..(NumSeeds - 1)

\* The largest count one digit key can give (c.to_digit(10)).
MaxDigit == 9

\* Cards in the tall column of a game in progress: one more than a digit
\* can count.
TallHeight == MaxDigit + 1

\* The most key events the terminal delivers in a run of LoopSpec.
MaxEvents == 4

\* The keys the terminal delivers in LoopSpec: those of a selection, of a
\* move, of a new game and of quitting.
LoopKeys == {"a", "1", "2", "8", "n", "q"}

\* fn draw: the frame shows the board, the selection state and the notice.
draw(b, st, inf) == [board |-> b, state |-> st, info |-> inf]

\* The screen before the first draw.
NoFrame == "nothing"

\* The screen after terminal.draw put frame on it while the loop holds b, st
\* and inf.
on_screen(frame, b, st, inf) == IF frame = draw(b, st, inf) THEN "current" ELSE "stale"

\* The screen when no draw follows: the frame it has, set against b, st and
\* inf.
left_on_screen(b, st, inf) ==
    IF shown = NoFrame \/ draw(b, st, inf) = draw(board, state, info) THEN shown ELSE "stale"

\* drawn_after_key with the fault of drawing before the key is handled.
drawn_before_key(before, after) == before

\* Lines 259-269: terminal.draw follows the handling of the key, so the
\* frame of a key event is the one of what the key left.
drawn_after_key(before, after) == after

\* The state on entering the loop (line 250) after a successful set-up:
\* raw mode on, alternate screen entered, nothing drawn, no key read.
Init ==
    /\ board \in {new_random(seed) : seed \in Seeds}
    /\ state = View
    /\ info = None
    /\ status = "running"
    /\ rejected = FALSE
    /\ simplified = 0
    /\ move = NoMove
    /\ last_key = None
    /\ last_state = View
    /\ last_board = board
    /\ nmoves = 0
    /\ raw_mode = TRUE
    /\ alt_screen = TRUE
    /\ shown = NoFrame
    /\ pending = <<>>
    /\ arrived = <<>>
    /\ handled = <<>>

\* Lines 264-269: a key that is neither 'q' nor 'n' goes to
\* change_board_state and the frame is drawn; a failed unwrap ends the
\* process through the panic hook (lines 239-244), a failed draw through
\* the ? of line 269.
Handle(key, draw_ok) ==
    /\ status = "running"
    /\ key \notin {"q", "n"}
    /\ last_key' = key
    /\ last_state' = state
    /\ last_board' = board
    /\ \E r \in {change_board_state(board, state, key)} :
          /\ board' = r.board
          /\ state' = r.state
          /\ info' = r.info
          /\ status' = IF r.panicked THEN "panicked"
                       ELSE IF draw_ok THEN "running" ELSE "io_error"
          /\ raw_mode' = IF r.panicked THEN FALSE ELSE raw_mode
          /\ alt_screen' = IF r.panicked THEN FALSE ELSE alt_screen
          /\ shown' = IF ~r.panicked /\ draw_ok
                      THEN on_screen(drawn_after_key(draw(board, state, info),
                                                     draw(r.board, r.state, r.info)),
                                     r.board, r.state, r.info)
                      ELSE left_on_screen(r.board, r.state, r.info)
          /\ rejected' = r.rejected
          /\ simplified' = r.simplified
          /\ move' = r.move
          /\ nmoves' = IF r.board # board THEN nmoves + 1 ELSE nmoves
    /\ nmoves' <= MaxMoves

\* Lines 262-263 and 267-269: 'n' replaces the board and nothing else, and
\* the frame is drawn.
NewBoard(draw_ok) ==
    /\ status = "running"
    /\ nmoves < MaxMoves
    /\ board' \in {new_random(seed) : seed \in Seeds}
    /\ nmoves' = nmoves + 1
    /\ last_key' = "n"
    /\ last_state' = state
    /\ last_board' = board
    /\ rejected' = FALSE
    /\ simplified' = 0
    /\ move' = NoMove
    /\ status' = IF draw_ok THEN "running" ELSE "io_error"
    /\ shown' = IF draw_ok
                THEN on_screen(drawn_after_key(draw(board, state, info),
                                               draw(board', state, info)),
                               board', state, info)
                ELSE left_on_screen(board', state, info)
    /\ UNCHANGED <<state, info, raw_mode, alt_screen>>

\* Lines 260-261 and 274-276: 'q' leaves the loop without a draw; raw mode
\* is disabled and the alternate screen left (both calls taken to succeed).
Leave ==
    /\ status = "running"
    /\ status' = "quit"
    /\ raw_mode' = FALSE
    /\ alt_screen' = FALSE
    /\ last_key' = "q"
    /\ last_state' = state
    /\ last_board' = board
    /\ rejected' = FALSE
    /\ simplified' = 0
    /\ move' = NoMove
    /\ UNCHANGED <<board, state, info, nmoves, shown>>

\* In Spec a key is handled as it arrives and every draw succeeds.
NoQueue == UNCHANGED <<pending, arrived, handled>>

ViewKey(key) == state.tag = "View" /\ Handle(key, TRUE) /\ NoQueue

CollectDragonKey(key) == state.tag = "CollectDragon" /\ Handle(key, TRUE) /\ NoQueue

SemiPickupKey(key) == state.tag = "SemiPickup" /\ Handle(key, TRUE) /\ NoQueue

PickupKey(key) == state.tag = "Pickup" /\ Handle(key, TRUE) /\ NoQueue

NewGame == NewBoard(TRUE) /\ NoQueue

Quit == Leave /\ NoQueue

Next ==
    \/ \E key \in Keys : ViewKey(key)
    \/ \E key \in Keys : CollectDragonKey(key)
    \/ \E key \in Keys : SemiPickupKey(key)
    \/ \E key \in Keys : PickupKey(key)
    \/ NewGame
    \/ Quit

\* The key handling of the event loop: every key of Keys in every state.
Spec == Init /\ [][Next]_vars

(* --------------------- a game with a tall column ---------------------- *)

\* A board of a game in progress on which column 0 has grown to TallHeight
\* cards (in the full deck: a dealt column of five under a run of five); the
\* other cards lie on column 1 and board.simplify() has run.
tall_board(seed) ==
    LET d == [i \in 1..DeckSize |-> Deck[((i - 1 + seed) % DeckSize) + 1]]
        n == IF TallHeight < DeckSize THEN TallHeight ELSE DeckSize
    IN simplify([new_random(seed) EXCEPT
                    !.tray = [t \in 0..(NumTrays - 1) |->
                                 IF t = 0 THEN SubSeq(d, 1, n)
                                 ELSE IF t = 1 THEN SubSeq(d, n + 1, DeckSize)
                                 ELSE <<>>]])

TallInit ==
    /\ board \in {tall_board(seed) : seed \in Seeds}
    /\ state = View
    /\ info = None
    /\ status = "running"
    /\ rejected = FALSE
    /\ simplified = 0
    /\ move = NoMove
    /\ last_key = None
    /\ last_state = View
    /\ last_board = board
    /\ nmoves = 0
    /\ raw_mode = TRUE
    /\ alt_screen = TRUE
    /\ shown = NoFrame
    /\ pending = <<>>
    /\ arrived = <<>>
    /\ handled = <<>>

\* The key handling of the event loop from a game with a tall column.
TallSpec == TallInit /\ [][Next]_vars

(* ------------------- the event loop and its terminal ------------------ *)

\* The process at the start of main: the terminal untouched; board,
\* board_state and info have the values lines 246-248 give them.
LoopInit ==
    /\ board \in {new_random(seed) : seed \in Seeds}
    /\ state = View
    /\ info = None
    /\ status = "starting"
    /\ rejected = FALSE
    /\ simplified = 0
    /\ move = NoMove
    /\ last_key = None
    /\ last_state = View
    /\ last_board = board
    /\ nmoves = 0
    /\ raw_mode = FALSE
    /\ alt_screen = FALSE
    /\ shown = NoFrame
    /\ pending = <<>>
    /\ arrived = <<>>
    /\ handled = <<>>

\* How far lines 233-235 get: enable_raw_mode()?, then
\* execute(EnterAlternateScreen)?, then Terminal::new(..)?; each ? returns
\* from main with what the calls before it did.
SetupOutcomes == {"raw_mode_failed", "alternate_screen_failed", "terminal_failed", "ok"}

\* Lines 233-248: the set-up of the terminal, up to the loop.
Startup ==
    /\ status = "starting"
    /\ \E outcome \in SetupOutcomes :
          /\ status' = IF outcome = "ok" THEN "running" ELSE "io_error"
          /\ raw_mode' = (outcome # "raw_mode_failed")
          /\ alt_screen' = (outcome \in {"terminal_failed", "ok"})
    /\ UNCHANGED <<board, state, info, rejected, simplified, move, last_key,
                   last_state, last_board, nmoves, shown, pending, arrived, handled>>

\* The terminal has a key event ready for event_stream (line 236).
KeyArrives(key) ==
    /\ status = "running"
    /\ Len(arrived) < MaxEvents
    /\ pending' = Append(pending, key)
    /\ arrived' = Append(arrived, key)
    /\ UNCHANGED <<board, state, info, status, rejected, simplified, move, last_key,
                   last_state, last_board, nmoves, raw_mode, alt_screen, shown, handled>>

\* Lines 257-270: the arm of event_stream.next() takes the oldest event and
\* runs to its end.
KeyEvent(draw_ok) ==
    /\ pending # <<>>
    /\ \/ Handle(Head(pending), draw_ok)
       \/ Head(pending) = "n" /\ NewBoard(draw_ok)
       \/ Head(pending) = "q" /\ Leave
    /\ pending' = Tail(pending)
    /\ handled' = Append(handled, Head(pending))
    /\ UNCHANGED arrived

\* Lines 252-256: the arm of the timer draws what the loop holds.
Redraw(draw_ok) ==
    /\ status = "running"
    /\ status' = IF draw_ok THEN "running" ELSE "io_error"
    /\ shown' = IF draw_ok
                THEN on_screen(draw(board, state, info), board, state, info)
                ELSE shown
    /\ UNCHANGED <<board, state, info, rejected, simplified, move, last_key,
                   last_state, last_board, nmoves, raw_mode, alt_screen,
                   pending, arrived, handled>>

LoopNext ==
    \/ Startup
    \/ \E key \in LoopKeys : KeyArrives(key)
    \/ \E draw_ok \in BOOLEAN : KeyEvent(draw_ok)
    \/ \E draw_ok \in BOOLEAN : Redraw(draw_ok)

\* main from its first line, with the terminal's failures and the two event
\* sources of the loop.
LoopSpec == LoopInit /\ [][LoopNext]_vars

(* ------------------------------ claims -------------------------------- *)

\* The key of a step is a destination the held source card cannot land on
\* (MoveError::IllegalDestination).
IllegalDestination(b, st, key) ==
    /\ st.tag = "Pickup"
    /\ key_to_slot(key) # Err
    /\ has_source_card(b, st.location)
    /\ ~appendable(b, key_to_slot(key), source_card(b, st.location))

C2_RejectedMoveChangesNoSlot ==
    IllegalDestination(last_board, last_state, last_key)
        => (board = last_board /\ simplified = 0 /\ ~move.made)

\* C2 witness: a destination key has just been rejected for a held tray run
\* of two or more cards, on a board that an earlier move has changed.
C2_Witness ==
    /\ IllegalDestination(last_board, last_state, last_key)
    /\ last_state.location.kind = "Tray"
    /\ pop_count(last_board, last_state.location) >= 2
    /\ nmoves >= 1

\* C3: no key event ends the process with a panic.
C3_NoKeyPanics == status # "panicked"

\* The last key event executed a move whose source is a tray run.
TrayMove == move.made /\ move.location.kind = "Tray"

\* The source column of the last move, as the key event found it.
SourceColumn == last_board.tray[move.location.index]

\* C4, as claimed: the digit N accepted in SemiPickup(i) is a number of
\* topmost cards: the move transfers exactly the N topmost cards of column i.
C4_DigitCountsTopmostCards ==
    TrayMove =>
        LET N == move.location.depth
            len == Len(SourceColumn)
        IN /\ move.cards = SubSeq(SourceColumn, len - N + 1, len)
           /\ move.pushed.tray[move.location.index] = SubSeq(SourceColumn, 1, len - N)

\* C4, amended: the digit N accepted in SemiPickup(i) is the 1-based depth,
\* counted from the bottom of column i, of the lowest card picked up: the
\* move transfers exactly the cards from depth N to the top, that is the
\* len - N + 1 topmost cards (N = 1 transfers the whole column, N = len only
\* the top card).
C4_DigitIsDepthFromBottom ==
    TrayMove =>
        LET N == move.location.depth
            len == Len(SourceColumn)
        IN /\ Len(move.cards) = len - N + 1
           /\ move.cards = SubSeq(SourceColumn, N, len)
           /\ move.pushed.tray[move.location.index] = SubSeq(SourceColumn, 1, N - 1)

\* C4 witness: a move with N = 1 from a column of two or more cards.
C4_Witness ==
    /\ TrayMove
    /\ move.location.depth = 1
    /\ Len(SourceColumn) >= 2
    /\ state = View

\* C5: every free cell holds at most one card.
C5_FreeCellHoldsAtMostOneCard ==
    \A i \in 0..(NumSpares - 1) : Len(board.spare[i]) <= 1

RECURSIVE Sum(_, _, _)
\* f[lo] + ... + f[hi]
Sum(f, lo, hi) == IF lo > hi THEN 0 ELSE f[lo] + Sum(f, lo + 1, hi)

\* The cards of a board: in the free cells (a collected cell holds the
\* dragons of one colour) and tray columns, and on the completion piles.
Total(b) ==
    Sum([i \in 0..(NumTrays - 1) |-> Len(b.tray[i])], 0, NumTrays - 1)
    + Sum([i \in 0..(NumSpares - 1) |->
             Len(b.spare[i]) + IF b.collected[i] THEN DragonCopies ELSE 0],
          0, NumSpares - 1)
    + Sum([i \in 1..3 |-> b.out[NumberCards[i]]], 1, 3)
    + IF b.flower THEN 1 ELSE 0

\* C6, as claimed: the cards of the board always add up to the deck (40 with
\* the full deck), and after a key event that executed a move the source
\* holds exactly as many cards fewer, and the destination as many more, as
\* were transferred.
C6_MoveChangesCountsByTransferred ==
    /\ Total(board) = DeckSize
    /\ move.made =>
          /\ Len(Get(board, SlotOf(move.location)))
               = Len(Get(last_board, SlotOf(move.location))) - Len(move.cards)
          /\ Len(Get(board, move.target_slot))
               = Len(Get(last_board, move.target_slot)) + Len(move.cards)

\* C6, amended: the cards of the board always add up to the deck; an
\* executed move changes the source and destination counts by exactly the
\* number of cards transferred as the board stands before board.simplify()
\* runs, and simplify, in the same key event, only takes cards off slots.
C6_CardConservation ==
    /\ Total(board) = DeckSize
    /\ move.made =>
          /\ Total(move.pushed) = DeckSize
          /\ Len(Get(move.pushed, SlotOf(move.location)))
               = Len(Get(last_board, SlotOf(move.location))) - Len(move.cards)
          /\ Len(Get(move.pushed, move.target_slot))
               = Len(Get(last_board, move.target_slot)) + Len(move.cards)
          /\ \A slot \in ALL_SLOTS : Len(Get(board, slot)) <= Len(Get(move.pushed, slot))

\* C6 witness: a run of two or more cards has been moved and simplify then
\* advanced a card to a completion pile.
C6_Witness ==
    /\ move.made
    /\ Len(move.cards) >= 2
    /\ board # move.pushed

\* The run a tray move carries: the cards from the held depth to the top.
Run == SubSeq(SourceColumn, move.location.depth, Len(SourceColumn))

\* C7, as claimed: after a key event that moved a tray run, the run lies in
\* its order on top of the destination, and the source column is what was
\* below the run.
C7_RunOnTopAfterKey ==
    TrayMove =>
        LET dst == Get(board, move.target_slot)
        IN /\ Len(dst) >= Len(Run)
           /\ SubSeq(dst, Len(dst) - Len(Run) + 1, Len(dst)) = Run
           /\ board.tray[move.location.index]
                = SubSeq(SourceColumn, 1, move.location.depth - 1)

\* C7, amended: once the run is pushed (line 209) and before
\* board.simplify() runs, the k = len - depth + 1 cards of the run lie in
\* their bottom-to-top order on top of what the destination held, and the
\* source column is what was below the run; simplify may then take cards
\* off either.
C7_RunOnTopAfterPush ==
    TrayMove =>
        /\ Len(Run) = Len(SourceColumn) - move.location.depth + 1
        /\ Get(move.pushed, move.target_slot)
             = Get(last_board, move.target_slot) \o Run
        /\ move.pushed.tray[move.location.index]
             = SubSeq(SourceColumn, 1, move.location.depth - 1)

\* C7 witness: a run of two or more cards moved to another tray.
C7_Witness ==
    /\ TrayMove
    /\ Len(move.cards) >= 2
    /\ move.target_slot.kind = "Tray"
    /\ move.target_slot.index # move.location.index

\* C8: while the loop runs, a notice is on display only if the last key
\* event itself set it.
C8_NoticeOnlyFromLastKey ==
    (status = "running" /\ info # None) => rejected

\* C9: Esc in CollectDragon, SemiPickup or Pickup leads to View, sets no
\* notice and leaves the board as it was.
C9_CancelReturnsToView ==
    (last_key = "Esc" /\ last_state.tag # "View")
        => (state = View /\ info = None /\ board = last_board)

\* C9 witness: Esc has just cancelled a held tray run on a board that a
\* move has changed.
C9_Witness ==
    /\ last_key = "Esc"
    /\ last_state.tag = "Pickup"
    /\ last_state.location.kind = "Tray"
    /\ nmoves >= 1

\* C10: in CollectDragon a colour key the engine refuses leaves the state
\* CollectDragon, sets the notice and changes no slot; a colour key the
\* engine accepts leads to View with no notice.
C10_DragonCollectionOutcome ==
    (last_state.tag = "CollectDragon" /\ dragon_color(last_key) # None)
        => IF CanCollectDragon(last_board, dragon_color(last_key))
           THEN state = View /\ info = None
           ELSE state = CollectDragon /\ info # None /\ board = last_board

\* C10 witness: a colour key has just been refused.
C10_Witness ==
    /\ last_state.tag = "CollectDragon"
    /\ dragon_color(last_key) # None
    /\ ~CanCollectDragon(last_board, dragon_color(last_key))

\* The cards of column i of b from depth d (counted from the bottom, from
\* one) up to the top form a legal run: each stacks onto the card below it.
LegalRun(b, i, d) ==
    \A j \in d..(Len(b.tray[i]) - 1) :
        can_stack_onto(b.tray[i][j + 1], b.tray[i][j])

\* The keys of the digits.
DigitKeys == {"0", "1", "2", "3", "4", "5", "6", "7", "8", "9"}

\* The number a digit key stands for.
DigitOf(k) == CHOOSE n \in 0..9 : <<"0", "1", "2", "3", "4", "5", "6", "7", "8", "9">>[n + 1] = k

\* The last key was a digit met in SemiPickup.
CountKey == last_state.tag = "SemiPickup" /\ last_key \in DigitKeys

\* The column SemiPickup named when the last key arrived.
ChosenColumn == last_board.tray[last_state.index]

\* C11: in SemiPickup(i) a digit N with 1 <= N <= length of column i leads
\* to Pickup(Tray(i, N)) exactly when the cards from depth N to the top form
\* a legal run; otherwise the state stays SemiPickup(i) and the notice
\* "Not a valid stack" is set. The board is unchanged in both cases.
C11_RunValidation ==
    (CountKey /\ DigitOf(last_key) \in 1..Len(ChosenColumn))
        => /\ board = last_board
           /\ IF LegalRun(last_board, last_state.index, DigitOf(last_key))
              THEN /\ state = Pickup(TrayLoc(last_state.index, DigitOf(last_key)))
                   /\ info = None
              ELSE /\ state = last_state
                   /\ info = "Not a valid stack"

\* C11 witness: a count below the top card has just been refused because the
\* cards above it are no legal run.
C11_Witness ==
    /\ CountKey
    /\ DigitOf(last_key) \in 1..(Len(ChosenColumn) - 1)
    /\ ~LegalRun(last_board, last_state.index, DigitOf(last_key))
    /\ info = "Not a valid stack"

\* C12: in SemiPickup(i) the digit 0 and a digit greater than the length of
\* column i do nothing: the state stays SemiPickup(i), no notice is set and
\* the board is unchanged.
C12_InvalidCountIsNoOp ==
    (CountKey /\ DigitOf(last_key) \notin 1..Len(ChosenColumn))
        => (state = last_state /\ info = None /\ ~rejected /\ board = last_board)

\* C12 witness: the digit one past the top of a non-empty column has just
\* been entered.
C12_Witness ==
    /\ CountKey
    /\ Len(ChosenColumn) >= 1
    /\ DigitOf(last_key) = Len(ChosenColumn) + 1
    /\ state = last_state

\* The keys of the free cells and of the tray columns, in slot order.
FreeCellKeys == <<"a", "b", "c">>

TrayKeys == <<"1", "2", "3", "4", "5", "6", "7", "8">>

\* The last key went to change_board_state (main keeps 'q' and 'n').
KeyPassedOn == last_key \in Keys \ {"q", "n"}

\* C14: in View the key of free cell i leads to Pickup(Spare(i)), the key of
\* tray column i to SemiPickup(i), the collect-dragon key to CollectDragon,
\* and every other key change_board_state receives leaves the state View;
\* the board is unchanged in all cases.
C14_TransitionsFromView ==
    (KeyPassedOn /\ last_state = View)
        => /\ board = last_board
           /\ \A i \in 0..(NumSpares - 1) :
                 last_key = FreeCellKeys[i + 1] => state = Pickup(SpareLoc(i))
           /\ \A i \in 0..(NumTrays - 1) :
                 last_key = TrayKeys[i + 1] => state = SemiPickup(i)
           /\ last_key = "d" => state = CollectDragon
           /\ last_key \notin {FreeCellKeys[i] : i \in 1..NumSpares}
                               \cup {TrayKeys[i] : i \in 1..NumTrays} \cup {"d"}
                 => state = View

\* C14 witness: the key of the last tray column has just been pressed in
\* View.
C14_Witness ==
    /\ last_state = View
    /\ last_key = "8"
    /\ state = SemiPickup(7)

\* The eleven keys of the slots.
SlotKeys == {FreeCellKeys[i] : i \in 1..NumSpares} \cup {TrayKeys[i] : i \in 1..NumTrays}

\* The state View turns into on a key.
FromView(k) == change_board_state(board, View, k).state

\* C15: key_to_slot yields a slot for exactly the eleven keys a, b, c and
\* 1..8 and Err for every other key, and the slot is the one View selects on
\* the same key: Spare(i) where View goes to Pickup(Spare(i)), Tray(i) where
\* View goes to SemiPickup(i).
C15_KeyMapper ==
    /\ \A k \in Keys : key_to_slot(k) \in ALL_SLOTS \cup {Err}
    /\ {k \in Keys : key_to_slot(k) # Err} = SlotKeys
    /\ Cardinality({k \in Keys : key_to_slot(k) # Err}) = 11
    /\ \A i \in 0..(NumSpares - 1) :
          /\ key_to_slot(FreeCellKeys[i + 1]) = Spare(i)
          /\ FromView(FreeCellKeys[i + 1]) = Pickup(SpareLoc(i))
    /\ \A i \in 0..(NumTrays - 1) :
          /\ key_to_slot(TrayKeys[i + 1]) = Tray(i)
          /\ FromView(TrayKeys[i + 1]) = SemiPickup(i)
    /\ (move.made /\ last_key \in SlotKeys) => move.target_slot = key_to_slot(last_key)

\* C15 witness: a card selected with a tray key has just been moved to the
\* free cell a destination key named.
C15_Witness ==
    /\ move.made
    /\ move.location.kind = "Tray"
    /\ move.target_slot = Spare(2)
    /\ last_key = "c"

\* The last key named a destination that takes the held source card.
SuccessfulMove ==
    /\ last_state.tag = "Pickup"
    /\ last_key \in SlotKeys
    /\ has_source_card(last_board, last_state.location)
    /\ appendable(last_board, key_to_slot(last_key),
                  source_card(last_board, last_state.location))

\* C16: a key that executes a move calls board.simplify() exactly once, on
\* the board that holds all the pushed cards, and leaves the state View; a
\* key that executes no move does not call it.
C16_SimplifyOncePerMove ==
    /\ SuccessfulMove
          => /\ move.made
             /\ simplified = 1
             /\ Total(move.pushed) = Total(last_board)
             /\ board = simplify(move.pushed)
             /\ state = View
    /\ ~SuccessfulMove => (simplified = 0 /\ ~move.made)

\* C16 witness: a move of one card has just been executed and simplify
\* changed the board it left.
C16_Witness ==
    /\ SuccessfulMove
    /\ Len(move.cards) = 1
    /\ simplified = 1
    /\ board # move.pushed

\* The last key is one its state has no use for: in CollectDragon neither
\* Esc nor a colour, in SemiPickup neither Esc nor a digit, in Pickup neither
\* Esc nor the key of a slot.
IgnoredKey ==
    /\ KeyPassedOn
    /\ last_key # "Esc"
    /\ \/ last_state.tag = "CollectDragon" /\ last_key \notin {"g", "w", "r"}
       \/ last_state.tag = "SemiPickup" /\ last_key \notin DigitKeys
       \/ last_state.tag = "Pickup" /\ last_key \notin SlotKeys

\* C17: a key that CollectDragon, SemiPickup or Pickup has no use for leaves
\* the state and the board as they were and sets no notice.
C17_IgnoredKeyChangesNothing ==
    IgnoredKey
        => (state = last_state /\ board = last_board /\ info = None /\ ~rejected)

\* C17 witness: a key that names no slot has just been ignored while a tray
\* run was held.
C17_Witness ==
    /\ IgnoredKey
    /\ last_state.tag = "Pickup"
    /\ last_state.location.kind = "Tray"
    /\ state = last_state

\* C18: in every state of a running game a held selection is valid:
\* Pickup(Spare(i)) means free cell i holds a card, Pickup(Tray(i, d)) means
\* 1 <= d <= length of column i and the cards from depth d to the top form a
\* legal run.
C18_HeldSelectionValid ==
    (status = "running" /\ state.tag = "Pickup")
        => IF state.location.kind = "Spare"
           THEN Len(board.spare[state.location.index]) >= 1
           ELSE /\ state.location.depth \in 1..Len(board.tray[state.location.index])
                /\ LegalRun(board, state.location.index, state.location.depth)

\* The process has ended: main returned or the panic hook ran.
Terminated == status \in {"quit", "panicked", "io_error"}

\* C13: on every exit path (quitting, a panic, an I/O error of the terminal
\* set-up or of a draw) raw mode is disabled and the alternate screen left
\* when the process ends.
C13_TerminalReleased ==
    Terminated => (~raw_mode /\ ~alt_screen)

\* Column i of b offers depth d: from View, with keys change_board_state
\* receives, the state Pickup(Tray(i, d)) is reached on b. Only a digit in
\* SemiPickup(i) leads to Pickup(Tray(i, _)), so two keys are all it takes.
Selectable(b, i, d) ==
    \E k1 \in Keys \ {"q", "n"} :
       /\ change_board_state(b, View, k1).state = SemiPickup(i)
       /\ \E k2 \in Keys \ {"q", "n"} :
             change_board_state(b, SemiPickup(i), k2).state = Pickup(TrayLoc(i, d))

\* C19: on every reachable board of a running game every legal run can be
\* selected: for each column i and each depth d in 1..length whose cards up
\* to the top form a legal run (the top card alone always does, also in a
\* column of more than nine cards) keys lead from View to
\* Pickup(Tray(i, d)).
C19_EveryLegalRunSelectable ==
    status = "running"
        => \A i \in 0..(NumTrays - 1) :
              \A d \in 1..Len(board.tray[i]) :
                 LegalRun(board, i, d) => Selectable(board, i, d)

\* C20: key events are handled one at a time in the order of arrival, and
\* what the screen shows while the loop waits is the board, the selection
\* state and the notice the last handled key event left, never an older
\* frame.
C20_EventLoopOrdering ==
    /\ arrived = handled \o pending
    /\ handled # <<>> => last_key = handled[Len(handled)]
    /\ status = "running" => shown # "stale"
    /\ (status = "running" /\ handled # <<>>) => shown = "current"

\* C20 witness: a move has just been executed and drawn while a later key
\* event waits in the stream.
C20_Witness ==
    /\ status = "running"
    /\ move.made
    /\ pending # <<>>
    /\ Len(handled) >= 3
    /\ shown = "current"
    /\ board # last_board

====
